---- MODULE Spec2Model ----
(***************************************************************************)
(* override-proxy: the rule builder (utils.ts), the rule registry and the  *)
(* override dispatch loop (main.ts).                                       *)
(*                                                                         *)
(* Strings are sequences of one-character strings, so that upper-casing,   *)
(* query stripping and regular-expression matching are computed and not    *)
(* assumed.                                                                *)
(***************************************************************************)
EXTENDS Integers, Sequences, FiniteSets, TLC

VARIABLES
    overrides,   \* main.ts: const overrides: OverrideRule[]
    lastIndex,   \* lastIndex of the RegExp object held by each registry rule
    reqSeq,      \* main.ts: let reqSeq = 0
    reqs,        \* per request id: the request, its response and its trace
    bCall,       \* builder harness: the arguments of one rule(...) call
    bRule,       \* builder harness: what the call returned or threw
    bLastIndex,  \* builder harness: lastIndex of the RegExp given as path
    bProbe,      \* builder harness: the last evaluation of the built test
    phase,       \* main.ts top level: "loading" until app.listen, then "listening"
    entries,     \* main.ts: const entries = await fg(...), the rule modules found
    loadIdx,     \* main.ts: position of for (const rel of entries)
    metaMap,     \* main.ts: const metaMap, the metadata of each registry rule
    loadErrors,  \* console.error("Failed loading rule module", rel, e)
    served       \* requests answered ahead of the logging middleware, and by what

vars == <<overrides, lastIndex, reqSeq, reqs, bCall, bRule, bLastIndex, bProbe,
          phase, entries, loadIdx, metaMap, loadErrors, served>>

dispatchVars == <<overrides, lastIndex, reqSeq, reqs, served>>
loaderVars == <<phase, entries, loadIdx, metaMap, loadErrors>>
builderVars == <<bCall, bRule, bLastIndex, bProbe>>

----------------------------------------------------------------------------
(* Bounds *)

MaxRules == 3      \* longest registry
MaxRequests == 2   \* requests received in one run
MaxModules == 2    \* rule modules found in the rules directory

----------------------------------------------------------------------------
(* Strings *)

\* String.prototype.toUpperCase on the letters the model uses
ToUpperChar(c) ==
    CASE c = "g" -> "G"
      [] c = "e" -> "E"
      [] c = "t" -> "T"
      [] c = "p" -> "P"
      [] c = "o" -> "O"
      [] c = "s" -> "S"
      [] OTHER -> c

toUpperCase(s) == [i \in 1..Len(s) |-> ToUpperChar(s[i])]

\* toMethod in rule(config): (m) => m.toUpperCase()
toMethod(m) == toUpperCase(m)

\* Array.prototype.includes
includes(arr, x) == \E i \in 1..Len(arr) : arr[i] = x

GET == <<"G", "E", "T">>

Digits == {"0", "1", "2", "3", "4", "5", "6", "7", "8", "9"}

\* express req.path: the URL up to the first "?"
RECURSIVE QueryStart(_, _)
QueryStart(url, i) ==
    IF i > Len(url) THEN Len(url) + 1
    ELSE IF url[i] = "?" THEN i
    ELSE QueryStart(url, i + 1)

ReqPath(url) == SubSeq(url, 1, QueryStart(url, 1) - 1)

----------------------------------------------------------------------------
(* Regular expressions: RegExp.prototype.test as rule() uses it.           *)
(* A RegExp is [anchS, atoms, anchE, flags]; an atom is a literal          *)
(* character or "\\d+"; flags is "", "g" or "y".                           *)

DigitsAtom == "\\d+"

RECURSIVE DigitRun(_, _)
\* number of consecutive digits of s after position pos (0-based)
DigitRun(s, pos) ==
    IF pos < Len(s) /\ s[pos + 1] \in Digits THEN 1 + DigitRun(s, pos + 1) ELSE 0

RECURSIVE MatchFrom(_, _, _, _)
RECURSIVE MatchDigits(_, _, _, _, _)
\* end index of the first (greedy, backtracking) match of atoms k.. at pos, or -1
MatchFrom(re, k, s, pos) ==
    IF k > Len(re.atoms)
    THEN (IF re.anchE /\ pos # Len(s) THEN -1 ELSE pos)
    ELSE IF re.atoms[k] = DigitsAtom
    THEN MatchDigits(re, k, s, pos, DigitRun(s, pos))
    ELSE IF pos < Len(s) /\ s[pos + 1] = re.atoms[k]
    THEN MatchFrom(re, k + 1, s, pos + 1)
    ELSE -1

MatchDigits(re, k, s, pos, n) ==
    IF n < 1 THEN -1
    ELSE LET e == MatchFrom(re, k + 1, s, pos + n)
         IN IF e # -1 THEN e ELSE MatchDigits(re, k, s, pos, n - 1)

RECURSIVE RegExpSearch(_, _, _)
\* RegExpBuiltinExec's loop: try start index i, then (unless sticky) i+1, ...
RegExpSearch(re, s, i) ==
    IF i > Len(s) THEN -1
    ELSE LET e == IF re.anchS /\ i # 0 THEN -1 ELSE MatchFrom(re, 1, s, i)
         IN IF e # -1 THEN e
            ELSE IF re.flags = "y" THEN -1
            ELSE RegExpSearch(re, s, i + 1)

KeepsPosition(re) == re.flags \in {"g", "y"}

\* regex.test(s) on a RegExp whose lastIndex is li: the result and the new lastIndex
RegExpTest(re, li, s) ==
    LET start == IF KeepsPosition(re) THEN li ELSE 0
        e == RegExpSearch(re, s, start)
    IN [found |-> e # -1,
        lastIndex |-> IF KeepsPosition(re) THEN (IF e = -1 THEN 0 ELSE e) ELSE li]

\* String(regex): "/" source "/" flags
RegExpSource(re) ==
    LET RECURSIVE Src(_)
        Src(k) == IF k > Len(re.atoms) THEN <<>>
                  ELSE (IF re.atoms[k] = DigitsAtom THEN <<"\\", "d", "+">>
                        ELSE IF re.atoms[k] = "/" THEN <<"\\", "/">>
                        ELSE <<re.atoms[k]>>) \o Src(k + 1)
    IN (IF re.anchS THEN <<"^">> ELSE <<>>) \o Src(1)
       \o (IF re.anchE THEN <<"$">> ELSE <<>>)

RegExpToString(re) ==
    <<"/">> \o RegExpSource(re) \o <<"/">>
    \o (IF re.flags = "" THEN <<>> ELSE <<re.flags>>)

NoRegExp == [anchS |-> FALSE, atoms |-> <<>>, anchE |-> FALSE, flags |-> ""]

----------------------------------------------------------------------------
(* Values handed to rule() and values it returns *)

UndefinedPath == [k |-> "undefined", s |-> <<>>, re |-> NoRegExp]
StringPath(s) == [k |-> "string", s |-> s, re |-> NoRegExp]
RegExpPath(re) == [k |-> "regex", s |-> <<>>, re |-> re]

NoName == [has |-> FALSE, v |-> <<>>]
Name(v) == [has |-> TRUE, v |-> v]

\* a value that may or may not be an array
NoArray == [array |-> FALSE, v |-> <<>>]
Array(v) == [array |-> TRUE, v |-> v]

\* the closure stored in OverrideRule.test, with what it captured
NoTestFn ==
    [kind |-> "undefined", enabled |-> FALSE, methods |-> <<>>, isString |-> FALSE,
     path |-> <<>>, regex |-> NoRegExp, user |-> "undefined"]

\* interface OverrideRule
NoRule ==
    [name |-> NoName, enabled |-> "unset", methods |-> NoArray, test |-> NoTestFn,
     handler |-> "undefined"]

Returned(r) == [state |-> "returned", error |-> "", rule |-> r]
Thrown(e) == [state |-> "thrown", error |-> e, rule |-> NoRule]
NotCalled == [state |-> "notcalled", error |-> "", rule |-> NoRule]

\* interface RuleConfig
NoConfig ==
    [name |-> NoName, enabled |-> "unset", methods |-> [has |-> FALSE, v |-> <<>>],
     path |-> UndefinedPath, test |-> "undefined", handler |-> "undefined"]

\* first argument of rule(): a method, a method list or a config record
MethodArg(m) == [t |-> "string", m |-> m, ms |-> <<>>, cfg |-> NoConfig]
MethodsArg(ms) == [t |-> "array", m |-> <<>>, ms |-> ms, cfg |-> NoConfig]
ConfigArg(cfg) == [t |-> "object", m |-> <<>>, ms |-> <<>>, cfg |-> cfg]

NoOptions == [has |-> FALSE, enabled |-> "unset"]
Options(e) == [has |-> TRUE, enabled |-> e]

BoolStr(b) == IF b THEN "true" ELSE "false"

----------------------------------------------------------------------------
(* rule(): utils.ts *)

\* mutant: the enabled option of the config is not read
ConfigEnabledIgnored(cfg) == TRUE

\* const enabled = cfg.enabled !== false
ConfigEnabled(cfg) == cfg.enabled # "false"

\* mutant: (cfg.methods ? cfg.methods : ["GET"]), the length is not looked at
ConfigMethodsNoDefault(cfg) ==
    LET src == IF cfg.methods.has THEN cfg.methods.v ELSE <<GET>>
    IN [i \in 1..Len(src) |-> toUpperCase(src[i])]

\* (cfg.methods && cfg.methods.length ? cfg.methods : ["GET"]).map(toUpperCase)
ConfigMethods(cfg) ==
    LET src == IF cfg.methods.has /\ Len(cfg.methods.v) > 0 THEN cfg.methods.v
               ELSE <<GET>>
    IN [i \in 1..Len(src) |-> toUpperCase(src[i])]

\* const name = cfg.name || (hasPath ? (isString ? cfg.path : String(cfg.path)) : undefined)
ConfigName(cfg) ==
    IF cfg.name.has /\ Len(cfg.name.v) > 0 THEN cfg.name
    ELSE IF cfg.path.k = "string" THEN Name(cfg.path.s)
    ELSE IF cfg.path.k = "regex" THEN Name(RegExpToString(cfg.path.re))
    ELSE NoName

\* mutant: a path, when given, drives matching and cfg.test is left aside
ConfigTestFnPathFirst(cfg) ==
    [kind |-> IF cfg.path.k # "undefined" THEN "cfgPath" ELSE "cfgTest",
     enabled |-> ConfigEnabled(cfg),
     methods |-> ConfigMethods(cfg),
     isString |-> cfg.path.k = "string",
     path |-> cfg.path.s,
     regex |-> cfg.path.re,
     user |-> cfg.test]

\* const testFn = cfg.test ? (req) => ... : (req) => {...}
ConfigTestFn(cfg) ==
    [kind |-> IF cfg.test # "undefined" THEN "cfgTest" ELSE "cfgPath",
     enabled |-> ConfigEnabled(cfg),
     methods |-> ConfigMethods(cfg),
     isString |-> cfg.path.k = "string",
     path |-> cfg.path.s,
     regex |-> cfg.path.re,
     user |-> cfg.test]

\* mutant: the config form lacks its check for path or test
ruleConfigUnchecked(cfg) ==
    Returned([name |-> ConfigName(cfg),
              enabled |-> BoolStr(ConfigEnabled(cfg)),
              methods |-> Array(ConfigMethods(cfg)),
              test |-> ConfigTestFn(cfg),
              handler |-> cfg.handler])

\* object config form
ruleConfig(cfg) ==
    IF cfg.path.k = "undefined" /\ cfg.test = "undefined"
    THEN Thrown("Error: rule(config) requires either path or test")
    ELSE LET name == ConfigName(cfg)
         IN Returned([name |-> IF name.has /\ Len(name.v) > 0 THEN name ELSE NoName,
                      enabled |-> BoolStr(ConfigEnabled(cfg)),
                      methods |-> Array(ConfigMethods(cfg)),
                      test |-> ConfigTestFn(cfg),
                      handler |-> cfg.handler])

\* mutant: the methods are kept as written
SignatureMethodsAsGiven(a) == IF a.t = "array" THEN a.ms ELSE <<a.m>>

\* (Array.isArray(method) ? method : [method]).map(toUpperCase)
SignatureMethods(a) ==
    LET src == IF a.t = "array" THEN a.ms ELSE <<a.m>>
    IN [i \in 1..Len(src) |-> toUpperCase(src[i])]

\* const enabled = options?.enabled !== false
SignatureEnabled(d) == ~(d.has /\ d.enabled = "false")

\* signature form: rule(method, path, handler, options?)
ruleSignature(a, b, c, d) ==
    IF a.t = "object"
    THEN Thrown("TypeError: m.toUpperCase is not a function")
    ELSE IF b.k = "undefined"
    THEN Thrown("TypeError: Cannot read properties of undefined (reading 'toString')")
    ELSE Returned([name |-> Name(IF b.k = "string" THEN b.s ELSE RegExpToString(b.re)),
                   enabled |-> BoolStr(SignatureEnabled(d)),
                   methods |-> Array(SignatureMethods(a)),
                   test |-> [kind |-> "sig",
                             enabled |-> SignatureEnabled(d),
                             methods |-> SignatureMethods(a),
                             isString |-> b.k = "string",
                             path |-> b.s,
                             regex |-> b.re,
                             user |-> "undefined"],
                   handler |-> c])

rule(a, b, c, d) ==
    IF a.t = "object" /\ a.cfg.handler # "undefined" /\ b.k = "undefined"
    THEN ruleConfig(a.cfg)
    ELSE ruleSignature(a, b, c, d)

----------------------------------------------------------------------------
(* Evaluating OverrideRule.test(req).  The outcome is "true", "false",     *)
(* "throw" (the call throws) or "promise" (the call returns a promise,     *)
(* here one that rejects); li is the RegExp's lastIndex before the call.   *)

ReturnsBool(b, li) == [out |-> BoolStr(b), lastIndex |-> li]

\* user-supplied predicates, by what a call of them does
UserTest(kind, req) ==
    CASE kind = "true" -> "true"       \* () => true
      [] kind = "false" -> "false"     \* () => false
      [] kind = "throw" -> "throw"     \* () => { throw new Error("test") }
      [] kind = "reject" -> "promise"  \* async () => { throw new Error("test") }
      [] OTHER -> "throw"              \* not a function

\* isString ? req.path === path : regex.test(req.path)
PathMatches(t, li, req) ==
    IF t.isString
    THEN ReturnsBool(ReqPath(req.url) = t.path, li)
    ELSE LET r == RegExpTest(t.regex, li, ReqPath(req.url))
         IN ReturnsBool(r.found, r.lastIndex)

\* the result of one evaluation together with the checks it went through, in
\* the order they were made: "enabled", "method", then "path" or "test"
Stepped(r, steps) == [out |-> r.out, lastIndex |-> r.lastIndex, steps |-> steps]

\* test of the config form without cfg.test
ConfigPathTest(t, li, req) ==
    IF ~t.enabled THEN Stepped(ReturnsBool(FALSE, li), <<"enabled">>)
    ELSE IF ~includes(t.methods, toMethod(req.method))
    THEN Stepped(ReturnsBool(FALSE, li), <<"enabled", "method">>)
    ELSE Stepped(PathMatches(t, li, req), <<"enabled", "method", "path">>)

\* mutant: cfg.test(req) is called first, the guards are looked at afterwards
ConfigUserTestEager(t, li, req) ==
    LET u == UserTest(t.user, req)
    IN IF u = "throw" THEN Stepped([out |-> u, lastIndex |-> li], <<"test">>)
       ELSE IF ~t.enabled THEN Stepped(ReturnsBool(FALSE, li), <<"test", "enabled">>)
       ELSE IF ~includes(t.methods, toMethod(req.method))
       THEN Stepped(ReturnsBool(FALSE, li), <<"test", "enabled", "method">>)
       ELSE Stepped([out |-> u, lastIndex |-> li], <<"test", "enabled", "method">>)

\* test of the config form with cfg.test:
\* enabled && methods.includes(toMethod(req.method)) && cfg.test(req)
ConfigUserTest(t, li, req) ==
    IF ~t.enabled THEN Stepped(ReturnsBool(FALSE, li), <<"enabled">>)
    ELSE IF ~includes(t.methods, toMethod(req.method))
    THEN Stepped(ReturnsBool(FALSE, li), <<"enabled", "method">>)
    ELSE Stepped([out |-> UserTest(t.user, req), lastIndex |-> li],
                 <<"enabled", "method", "test">>)

\* test of the signature form
SignatureTest(t, li, req) ==
    LET m == toUpperCase(req.method)
    IN IF ~t.enabled THEN Stepped(ReturnsBool(FALSE, li), <<"enabled">>)
       ELSE IF ~includes(t.methods, m)
       THEN Stepped(ReturnsBool(FALSE, li), <<"enabled", "method">>)
       ELSE Stepped(PathMatches(t, li, req), <<"enabled", "method", "path">>)

RuleTest(t, li, req) ==
    CASE t.kind = "sig" -> SignatureTest(t, li, req)
      [] t.kind = "cfgPath" -> ConfigPathTest(t, li, req)
      [] t.kind = "cfgTest" -> ConfigUserTest(t, li, req)
      [] OTHER -> Stepped([out |-> UserTest(t.user, req), lastIndex |-> li], <<"test">>)

----------------------------------------------------------------------------
(* Inputs *)

POST == <<"P", "O", "S", "T">>
get == <<"g", "e", "t">>
post == <<"p", "o", "s", "t">>
Get == <<"G", "e", "t">>

MethodSpellings == {GET, get, Get, POST, post}

MethodLists == {<<>>, <<get>>, <<Get, post>>}

PathUser == <<"/", "u", "/", "4", "2">>
PathPing == <<"/", "p">>

\* /^\/u\/(\d+)$/ with the given flags
ReUser(flags) ==
    [anchS |-> TRUE, atoms |-> <<"/", "u", "/", DigitsAtom>>, anchE |-> TRUE,
     flags |-> flags]

\* /\/u\// : matches anywhere in the path
ReAny == [anchS |-> FALSE, atoms |-> <<"/", "u", "/">>, anchE |-> FALSE, flags |-> ""]

RegExps == {ReUser(""), ReUser("g"), ReUser("y"), ReAny}

PathSpecs == {StringPath(PathUser), StringPath(PathPing)} \cup {RegExpPath(re) : re \in RegExps}

Urls ==
    {PathUser,
     <<"/", "u", "/", "a">>,
     <<"/", "u", "/", "4", "2", "/", "x">>,
     <<"/", "u", "/", "4", "2", "?", "x">>,
     PathPing}

Requests == [method : MethodSpellings, url : Urls]

UserTests == {"true", "false", "throw", "reject"}

Configs ==
    [name : {NoName, Name(<<"n">>)},
     enabled : {"unset", "true", "false"},
     methods : {[has |-> FALSE, v |-> <<>>]} \cup {[has |-> TRUE, v |-> ms] : ms \in MethodLists},
     path : {UndefinedPath} \cup PathSpecs,
     test : {"undefined"} \cup UserTests,
     handler : {"undefined", "respond"}]

OptionsArgs == {NoOptions, Options("unset"), Options("true"), Options("false")}

\* the calls rule(a, b, c, d) the builder harness makes
BuilderCalls ==
    [a : {ConfigArg(cfg) : cfg \in Configs}, b : {UndefinedPath},
     c : {"undefined"}, d : {NoOptions}]
    \cup
    [a : {MethodArg(m) : m \in MethodSpellings} \cup {MethodsArg(ms) : ms \in MethodLists},
     b : {UndefinedPath} \cup PathSpecs,
     c : {"undefined", "respond"},
     d : OptionsArgs]

----------------------------------------------------------------------------
(* Builder harness: one rule(...) call, then evaluations of the test it built *)

NoProbe ==
    [done |-> FALSE, req |-> [method |-> GET, url |-> PathPing], li |-> 0, out |-> "false",
     steps |-> <<>>]

BuilderIdle ==
    /\ bCall = [a |-> MethodArg(GET), b |-> UndefinedPath, c |-> "undefined", d |-> NoOptions]
    /\ bRule = NotCalled
    /\ bLastIndex = 0
    /\ bProbe = NoProbe

\* no rule module found, none loaded yet
LoaderIdle ==
    /\ phase = "loading"
    /\ entries = <<>>
    /\ loadIdx = 1
    /\ metaMap = <<>>
    /\ loadErrors = <<>>

BuilderInit ==
    /\ bCall \in BuilderCalls
    /\ bRule = NotCalled
    /\ bLastIndex = 0
    /\ bProbe = NoProbe
    /\ overrides = <<>>
    /\ lastIndex = <<>>
    /\ reqSeq = 0
    /\ reqs = <<>>
    /\ served = <<>>
    /\ LoaderIdle

\* the module under load calls rule(a, b, c, d)
CallRule ==
    /\ bRule.state = "notcalled"
    /\ bRule' = rule(bCall.a, bCall.b, bCall.c, bCall.d)
    /\ UNCHANGED <<bCall, bLastIndex, bProbe, dispatchVars, loaderVars>>

\* rule.test(req) on the rule the call returned
EvaluateTest(req) ==
    /\ bRule.state = "returned"
    /\ LET r == RuleTest(bRule.rule.test, bLastIndex, req)
       IN /\ bProbe' = [done |-> TRUE, req |-> req, li |-> bLastIndex, out |-> r.out,
                        steps |-> r.steps]
          /\ bLastIndex' = r.lastIndex
    /\ UNCHANGED <<bCall, bRule, dispatchVars, loaderVars>>

BuilderNext ==
    \/ CallRule
    \/ \E req \in Requests : EvaluateTest(req)

BuilderSpec == BuilderInit /\ [][BuilderNext]_vars

----------------------------------------------------------------------------
(* Rule loading: main.ts keeps the exported values isOverrideRule accepts *)

\* utils.ts isOverrideRule
isOverrideRule(obj) ==
    /\ obj.test.kind # "undefined"
    /\ obj.handler # "undefined"
    /\ obj.methods.array

\* a plain object { enabled, methods, test, handler } exported by a rule module
PlainObject(enabled, methods, test, handler) ==
    [name |-> NoName, enabled |-> enabled, methods |-> methods,
     test |-> [NoTestFn EXCEPT !.kind = "user", !.user = test],
     handler |-> handler]

PathConfig(path, enabled, handler) ==
    [NoConfig EXCEPT !.path = path, !.enabled = enabled, !.handler = handler]

TestConfig(test, methods, handler) ==
    [NoConfig EXCEPT !.test = test, !.methods = methods, !.handler = handler]

\* what the rule modules of the model export
RuleModuleCalls ==
    {[a |-> MethodArg(GET), b |-> StringPath(PathUser), c |-> "respond", d |-> NoOptions],
     [a |-> MethodsArg(<<Get, post>>), b |-> RegExpPath(ReUser("")),
      c |-> "throw", d |-> NoOptions],
     [a |-> ConfigArg(PathConfig(StringPath(PathUser), "unset", "respondThrow")),
      b |-> UndefinedPath, c |-> "undefined", d |-> NoOptions],
     [a |-> ConfigArg(TestConfig("throw", [has |-> TRUE, v |-> <<post>>], "respond")),
      b |-> UndefinedPath, c |-> "undefined", d |-> NoOptions],
     [a |-> ConfigArg(TestConfig("reject", [has |-> FALSE, v |-> <<>>], "asyncReject")),
      b |-> UndefinedPath, c |-> "undefined", d |-> NoOptions],
     [a |-> MethodArg(POST), b |-> StringPath(PathUser), c |-> "hang", d |-> NoOptions],
     [a |-> ConfigArg(PathConfig(StringPath(PathUser), "false", "respond")),
      b |-> UndefinedPath, c |-> "undefined", d |-> NoOptions],
     [a |-> MethodArg(post), b |-> RegExpPath(ReAny), c |-> "asyncRespond",
      d |-> NoOptions],
     [a |-> MethodArg(GET), b |-> StringPath(PathUser), c |-> "undefined", d |-> NoOptions]}

ExportedValues ==
    {rule(k.a, k.b, k.c, k.d).rule : k \in RuleModuleCalls}
    \cup {PlainObject("false", Array(<<GET>>), "true", "next"),
          PlainObject("unset", NoArray, "true", "respond")}

LoadableRules == {v \in ExportedValues : isOverrideRule(v)}

RECURSIVE SeqsUpTo(_, _)
SeqsUpTo(S, n) ==
    IF n = 0 THEN {<<>>}
    ELSE LET shorter == SeqsUpTo(S, n - 1)
         IN shorter \cup {Append(q, x) : q \in {t \in shorter : Len(t) = n - 1}, x \in S}

----------------------------------------------------------------------------
(* Rule modules and the loader loop of main.ts *)

\* an exported expression: a rule(...) call or an object literal
NoCall == [a |-> MethodArg(GET), b |-> UndefinedPath, c |-> "undefined", d |-> NoOptions]
CallExpr(k) == [isCall |-> TRUE, call |-> k, obj |-> NoRule]
ObjectExpr(o) == [isCall |-> FALSE, call |-> NoCall, obj |-> o]

\* the expression is evaluated when the module body runs
Evaluate(x) ==
    IF x.isCall THEN rule(x.call.a, x.call.b, x.call.c, x.call.d) ELSE Returned(x.obj)

\* export const key = [items...]   /   export const key = item
Export(key, items) == [key |-> key, isArray |-> TRUE, items |-> items]
ExportOne(key, item) == [key |-> key, isArray |-> FALSE, items |-> <<item>>]

KeyDefault == <<"d", "e", "f", "a", "u", "l", "t">>
KeyRules == <<"r", "u", "l", "e", "s">>
KeyA == <<"A">>
KeyB == <<"B">>
Keya == <<"a">>

\* String.prototype.charCodeAt on the letters of the export names
CodeUnit(c) ==
    CASE c = "A" -> 65 [] c = "B" -> 66
      [] c = "a" -> 97 [] c = "d" -> 100 [] c = "e" -> 101 [] c = "f" -> 102
      [] c = "l" -> 108 [] c = "r" -> 114 [] c = "s" -> 115 [] c = "t" -> 116
      [] c = "u" -> 117

RECURSIVE KeyBefore(_, _)
\* the order of the string keys of a module namespace object: by code unit
KeyBefore(x, y) ==
    IF x = <<>> THEN y # <<>>
    ELSE IF y = <<>> THEN FALSE
    ELSE IF CodeUnit(Head(x)) # CodeUnit(Head(y))
    THEN CodeUnit(Head(x)) < CodeUnit(Head(y))
    ELSE KeyBefore(Tail(x), Tail(y))

RECURSIVE EntriesOf(_, _)
EntriesOf(m, left) ==
    IF left = {} THEN <<>>
    ELSE LET d == CHOOSE d \in left :
                      \A e \in left \ {d} : KeyBefore(m.decls[d].key, m.decls[e].key)
         IN <<m.decls[d]>> \o EntriesOf(m, left \ {d})

\* mutant: the exports come in the order the module declares them
ObjectEntriesAsDeclared(m) == m.decls

\* Object.entries(mod) of the namespace object import() resolves to
ObjectEntries(m) == EntriesOf(m, 1..Len(m.decls))

HasExport(m, key) == \E d \in 1..Len(m.decls) : m.decls[d].key = key
ExportOf(m, key) == m.decls[CHOOSE d \in 1..Len(m.decls) : m.decls[d].key = key]

\* await import(full) rejects when the module body throws
ImportThrows(m) ==
    \E d \in 1..Len(m.decls) : \E k \in 1..Len(m.decls[d].items) :
        Evaluate(m.decls[d].items[k]).state = "thrown"

RECURSIVE AcceptedItems(_, _)
\* for (const item of ...) if (isOverrideRule(item)) collected.push({ rule: item, exportName })
AcceptedItems(items, exportName) ==
    IF items = <<>> THEN <<>>
    ELSE LET v == Evaluate(Head(items)).rule
         IN (IF isOverrideRule(v) THEN <<[rule |-> v, exportName |-> exportName]>>
             ELSE <<>>)
            \o AcceptedItems(Tail(items), exportName)

\* if (mod.default) { array of rules, or one rule }
CollectDefault(m) ==
    IF HasExport(m, KeyDefault)
    THEN AcceptedItems(ExportOf(m, KeyDefault).items, NoName)
    ELSE <<>>

\* if (Array.isArray(mod.rules)) ...
CollectRules(m) ==
    IF HasExport(m, KeyRules) /\ ExportOf(m, KeyRules).isArray
    THEN AcceptedItems(ExportOf(m, KeyRules).items, NoName)
    ELSE <<>>

RECURSIVE CollectNamed(_)
\* for (const [key, val] of Object.entries(mod)): a rule, or an array of rules
CollectNamed(es) ==
    IF es = <<>> THEN <<>>
    ELSE (IF Head(es).key \in {KeyDefault, KeyRules} THEN <<>>
          ELSE AcceptedItems(Head(es).items, Name(Head(es).key)))
         \o CollectNamed(Tail(es))

Collect(m) == CollectDefault(m) \o CollectRules(m) \o CollectNamed(ObjectEntries(m))

\* mutant: no try around import and collection, what was built is kept
ImportedNoCatch(m) == Collect(m)

\* try { import, collect } catch (e) { console.error(...) }
Imported(m) == IF ImportThrows(m) THEN <<>> ELSE Collect(m)

\* if (exportName && !r.name) r.name = exportName
FinalRule(c) ==
    IF c.exportName.has /\ ~(c.rule.name.has /\ Len(c.rule.name.v) > 0)
    THEN [c.rule EXCEPT !.name = c.exportName]
    ELSE c.rule

\* { file: rel, export: exportName, id: `${rel}${exportName ? ":" + exportName : ""}` }
Meta(rel, c) ==
    [file |-> rel, export |-> c.exportName,
     id |-> IF c.exportName.has THEN rel \o <<":">> \o c.exportName.v ELSE rel]

\* mutant: the server is started without waiting for the loader loop
LoadingDoneAtOnce == TRUE

\* the for loop over entries has ended
LoadingDone == loadIdx > Len(entries)

\* mutant: the server also takes requests only while no handler is suspended
ListeningWhenIdle ==
    /\ phase = "listening"
    /\ \A id \in 1..Len(reqs) : reqs[id].pc # "awaiting"

\* app.listen(port) has been called: requests reach the middleware chain
Listening == phase = "listening"

\* the rule modules of the model
CallGetUser ==
    [a |-> MethodArg(GET), b |-> StringPath(PathUser), c |-> "respond", d |-> NoOptions]
CallAnyGet ==
    [a |-> ConfigArg(TestConfig("true", [has |-> FALSE, v |-> <<>>], "respond")),
     b |-> UndefinedPath, c |-> "undefined", d |-> NoOptions]
CallPostAsync ==
    [a |-> MethodArg(post), b |-> RegExpPath(ReAny), c |-> "asyncRespond", d |-> NoOptions]
CallThrowingHandler ==
    [a |-> MethodsArg(<<Get, post>>), b |-> RegExpPath(ReUser("")), c |-> "throw",
     d |-> NoOptions]
CallNoPathNoTest ==
    [a |-> ConfigArg([NoConfig EXCEPT !.handler = "respond"]),
     b |-> UndefinedPath, c |-> "undefined", d |-> NoOptions]
CallNoHandler ==
    [a |-> MethodArg(GET), b |-> StringPath(PathUser), c |-> "undefined", d |-> NoOptions]

File(c) == <<c, ".", "t", "s">>

\* export const B = rule("GET", "/u/42", h); export const A = rule({ test, handler })
ModuleNamed ==
    [file |-> File("a"),
     decls |-> <<ExportOne(KeyB, CallExpr(CallGetUser)),
                 ExportOne(KeyA, CallExpr(CallAnyGet))>>]

\* export const a = [...]; export const rules = [...]; export default [...]
ModuleLegacy ==
    [file |-> File("b"),
     decls |-> <<Export(Keya, <<CallExpr(CallThrowingHandler),
                                ObjectExpr(PlainObject("unset", NoArray, "true", "respond"))>>),
                 Export(KeyRules, <<CallExpr(CallPostAsync)>>),
                 Export(KeyDefault, <<CallExpr(CallGetUser), CallExpr(CallNoHandler)>>)>>]

\* export const A = rule(...); export const B = rule({ handler })   (throws)
ModuleBroken ==
    [file |-> File("c"),
     decls |-> <<ExportOne(KeyA, CallExpr(CallGetUser)),
                 ExportOne(KeyB, CallExpr(CallNoPathNoTest))>>]

\* export default rule(...); export const rules = rule(...); export const a = { ... }
ModuleSingle ==
    [file |-> File("d"),
     decls |-> <<ExportOne(KeyDefault, CallExpr(CallAnyGet)),
                 ExportOne(KeyRules, CallExpr(CallGetUser)),
                 ExportOne(Keya, ObjectExpr(PlainObject("unset", Array(<<POST>>),
                                                        "true", "hang")))>>]

\* export const A = rule("GET", "/u/42")   (no handler)
ModuleEmpty ==
    [file |-> File("e"), decls |-> <<ExportOne(KeyA, CallExpr(CallNoHandler))>>]

RuleModules == {ModuleNamed, ModuleLegacy, ModuleBroken, ModuleSingle, ModuleEmpty}

\* what fast-glob may return: files of the rules directory, each once
EntryLists ==
    {q \in SeqsUpTo(RuleModules, MaxModules) :
        \A i, j \in 1..Len(q) : i # j => q[i].file # q[j].file}

\* the registry of a run that starts with the server listening, as one module
\* export default [ ... ]
RegistryFile == File("r")
RegistryModule(rs) ==
    [file |-> RegistryFile,
     decls |-> <<Export(KeyDefault, [i \in 1..Len(rs) |-> ObjectExpr(rs[i])])>>]

----------------------------------------------------------------------------
(* The middleware chain ahead of the dispatcher: app.get("/__env"), cors() *)

HEAD == <<"H", "E", "A", "D">>
OPTIONS == <<"O", "P", "T", "I", "O", "N", "S">>
PathEnv == <<"/", "_", "_", "e", "n", "v">>

\* String.prototype.toLowerCase on the letters of the route
ToLowerChar(c) ==
    CASE c = "E" -> "e"
      [] c = "N" -> "n"
      [] c = "V" -> "v"
      [] OTHER -> c

toLowerCase(s) == [i \in 1..Len(s) |-> ToLowerChar(s[i])]

\* express matches a route path without regard to letter case and with an
\* optional trailing slash (case sensitive routing and strict routing are off)
RoutePathMatches(route, path) ==
    LET p == IF Len(path) > 1 /\ path[Len(path)] = "/" THEN SubSeq(path, 1, Len(path) - 1)
             ELSE path
    IN toLowerCase(p) = toLowerCase(route)

\* mutant: the route does not come ahead of the dispatcher
EnvRouteNotAhead(req) == FALSE

\* app.get("/__env", ...): a get route also takes HEAD requests
EnvRoute(req) ==
    /\ req.method \in {GET, HEAD}
    /\ RoutePathMatches(PathEnv, ReqPath(req.url))

\* cors() answers an OPTIONS request itself
Preflight(req) == toUpperCase(req.method) = OPTIONS

----------------------------------------------------------------------------
(* The response object and the dispatcher's catch block *)

StatusOverrideFailed == 500
StatusOk == 200

\* String(err) of new Error(message)
String(err) == err.name \o ": " \o err.message

HandlerError == [name |-> "Error", message |-> "handler failed"]
TestError == [name |-> "Error", message |-> "test failed"]

HandlerResponse == [status |-> StatusOk, error |-> "", detail |-> ""]

\* res.status(500).json({ error: "override_failed", detail: String(err) })
OverrideFailed(err) ==
    [status |-> StatusOverrideFailed, error |-> "override_failed", detail |-> String(err)]

Done(r) == [r EXCEPT !.pc = "done"]

\* res.json(body): the response goes out; once one has gone out, setting a
\* header throws ERR_HTTP_HEADERS_SENT, which nothing around the call catches
Json(r, body) ==
    IF Len(r.sent) > 0 THEN [r EXCEPT !.uncaught = TRUE]
    ELSE [r EXCEPT !.sent = <<body>>]

\* mutant: the loop ends without next()
NoMatchDropped(r) == Done(r)

\* next(): after the loop found no rule
NoMatch(r) == Done([r EXCEPT !.nextByDispatcher = @ + 1])

\* mutant: the catch block lacks its return and control reaches next()
CatchFallsThrough(r, err) == NoMatch(Json(r, OverrideFailed(err)))

\* catch (err) { logError(...); res.status(500).json(...); return; }
Catch(r, err) == Done(Json(r, OverrideFailed(err)))


----------------------------------------------------------------------------
(* The override dispatch loop: main.ts, app.use(async (req, res, next) => ...) *)

Last(q) == q[Len(q)]

\* if (rule.test(req)): what JavaScript takes for true
Truthy(out) == out \in {"true", "promise"}

\* mutant: the loop steps over a rule
NextRuleSkips(i) == i + 2

\* for (const rule of overrides): the rule after rule i
NextRule(i) == i + 1

RECURSIVE ScanPastMatch(_, _, _, _, _)
\* mutant: the loop lacks its return at the first match; the last match wins
ScanPastMatch(i, li, req, tested, outcomes) ==
    IF i > Len(overrides) \/ i < 1
    THEN [result |-> "exhausted", at |-> 0, li |-> li, tested |-> tested,
          outcomes |-> outcomes]
    ELSE LET t == RuleTest(overrides[i].test, li[i], req)
             li2 == [li EXCEPT ![i] = t.lastIndex]
             tested2 == Append(tested, i)
             outcomes2 == Append(outcomes, t.out)
             rest == ScanPastMatch(i + 1, li2, req, tested2, outcomes2)
         IN IF t.out = "throw"
            THEN [result |-> "threw", at |-> i, li |-> li2, tested |-> tested2,
                  outcomes |-> outcomes2]
            ELSE IF Truthy(t.out) /\ rest.result = "exhausted"
            THEN [rest EXCEPT !.result = "matched", !.at = i]
            ELSE rest

RECURSIVE Scan(_, _, _, _, _)
\* the loop from rule i on, up to the first test that is truthy or throws:
\* what ended it, at which rule, the tests made and the RegExp positions left
Scan(i, li, req, tested, outcomes) ==
    IF i > Len(overrides) \/ i < 1
    THEN [result |-> "exhausted", at |-> 0, li |-> li, tested |-> tested,
          outcomes |-> outcomes]
    ELSE LET t == RuleTest(overrides[i].test, li[i], req)
             li2 == [li EXCEPT ![i] = t.lastIndex]
             tested2 == Append(tested, i)
             outcomes2 == Append(outcomes, t.out)
         IN IF t.out = "throw"
            THEN [result |-> "threw", at |-> i, li |-> li2, tested |-> tested2,
                  outcomes |-> outcomes2]
            ELSE IF Truthy(t.out)
            THEN [result |-> "matched", at |-> i, li |-> li2, tested |-> tested2,
                  outcomes |-> outcomes2]
            ELSE Scan(NextRule(i), li2, req, tested2, outcomes2)

\* a handler fails: it throws, or the promise it returned rejects
HandlerFails(r) == [r EXCEPT !.failed = TRUE]

\* mutant: no return after the handler, control reaches the next() after the loop
MatchedFallsThrough(r, i) ==
    LET h == overrides[i].handler
        r1 == [r EXCEPT !.via = "override", !.matched = overrides[i].name,
                        !.invoked = Append(@, i),
                        !.uncaught = @ \/ (Len(r.outcomes) > 0 /\ Last(r.outcomes) = "promise")]
    IN CASE h = "respond" -> Done(Json(r1, HandlerResponse))
         [] h = "throw" -> Catch(HandlerFails(r1), HandlerError)
         [] h = "respondThrow" ->
                Catch(HandlerFails(Json(r1, HandlerResponse)), HandlerError)
         [] h = "next" -> NoMatch([r1 EXCEPT !.nextByHandler = @ + 1])
         [] OTHER -> [r1 EXCEPT !.pc = "awaiting"]

\* the matched branch: _via, _matched, logRequestMatch, await rule.handler(req, res, next)
\* up to the handler's return, throw or first suspension
Matched(r, i) ==
    LET h == overrides[i].handler
        \* a promise returned by the test is never awaited: if it rejects,
        \* nothing catches the rejection
        r1 == [r EXCEPT !.via = "override", !.matched = overrides[i].name,
                        !.invoked = Append(@, i),
                        !.uncaught = @ \/ (Len(r.outcomes) > 0 /\ Last(r.outcomes) = "promise")]
    IN CASE h = "respond" -> Done(Json(r1, HandlerResponse))
         [] h = "throw" -> Catch(HandlerFails(r1), HandlerError)
         [] h = "respondThrow" ->
                Catch(HandlerFails(Json(r1, HandlerResponse)), HandlerError)
         [] h = "next" -> Done([r1 EXCEPT !.nextByHandler = @ + 1])
         [] OTHER -> [r1 EXCEPT !.pc = "awaiting"]

\* the continuation of await rule.handler(...) once the handler's promise settles
Settled(r, i) ==
    LET h == overrides[i].handler
    IN IF h = "asyncRespond" THEN Done(Json(r, HandlerResponse))
       ELSE Catch(HandlerFails(r), HandlerError)

\* the whole middleware call for one request, up to its first suspension
Dispatch(r, s) ==
    LET r1 == [r EXCEPT !.tested = s.tested, !.outcomes = s.outcomes]
    IN CASE s.result = "exhausted" -> NoMatch(r1)
         [] s.result = "threw" -> Catch(r1, TestError)
         [] OTHER -> Matched(r1, s.at)

\* the logging middleware: const id = ++reqSeq; res._logId = id
NewRequest(id, req) ==
    [logId |-> id, req |-> req, pc |-> "received", tested |-> <<>>, outcomes |-> <<>>,
     invoked |-> <<>>, nextByHandler |-> 0, nextByDispatcher |-> 0, sent |-> <<>>,
     failed |-> FALSE, uncaught |-> FALSE, via |-> "", matched |-> NoName]

DispatchRequests ==
    {[method |-> GET, url |-> PathUser],
     [method |-> POST, url |-> <<"/", "u", "/", "4", "2", "?", "x">>]}

Init ==
    /\ overrides \in SeqsUpTo(LoadableRules, MaxRules)
    /\ lastIndex = [i \in 1..Len(overrides) |-> 0]
    /\ reqSeq = 0
    /\ reqs = <<>>
    /\ served = <<>>
    /\ BuilderIdle
    /\ phase = "listening"
    /\ entries = <<RegistryModule(overrides)>>
    /\ loadIdx = 2
    /\ metaMap = [i \in 1..Len(overrides) |->
                      Meta(RegistryFile, [rule |-> overrides[i], exportName |-> NoName])]
    /\ loadErrors = <<>>

\* a request arrives and runs through the logging middleware and the dispatch loop
Receive(req) ==
    /\ Listening
    /\ reqSeq + Len(served) < MaxRequests
    /\ ~EnvRoute(req)
    /\ ~Preflight(req)
    /\ LET id == reqSeq + 1
           s == Scan(1, lastIndex, req, <<>>, <<>>)
       IN /\ reqSeq' = id
          /\ lastIndex' = s.li
          /\ reqs' = Append(reqs, Dispatch(NewRequest(id, req), s))
    /\ UNCHANGED <<overrides, served, builderVars, loaderVars>>

\* the promise of a suspended handler settles
Settle(id) ==
    /\ id \in 1..Len(reqs)
    /\ reqs[id].pc = "awaiting"
    /\ overrides[reqs[id].invoked[Len(reqs[id].invoked)]].handler # "hang"
    /\ reqs' = [reqs EXCEPT ![id] = Settled(@, reqs[id].invoked[Len(reqs[id].invoked)])]
    /\ UNCHANGED <<overrides, lastIndex, reqSeq, served, builderVars, loaderVars>>

\* GET /__env: the built-in endpoint answers, nothing after it runs
BuiltIn(req) ==
    /\ Listening
    /\ reqSeq + Len(served) < MaxRequests
    /\ EnvRoute(req)
    /\ served' = Append(served, [req |-> req, by |-> "env"])
    /\ UNCHANGED <<overrides, lastIndex, reqSeq, reqs, builderVars, loaderVars>>

\* cors() ends the request: a preflight it answers, or an origin that the
\* configured CORS_ORIGINS do not list (callback(new Error("Not allowed by CORS")))
CorsStops(req) ==
    /\ Listening
    /\ reqSeq + Len(served) < MaxRequests
    /\ ~EnvRoute(req)
    /\ served' = Append(served, [req |-> req,
                                 by |-> IF Preflight(req) THEN "preflight" ELSE "origin"])
    /\ UNCHANGED <<overrides, lastIndex, reqSeq, reqs, builderVars, loaderVars>>

Next ==
    \/ \E req \in DispatchRequests : Receive(req)
    \/ \E id \in 1..MaxRequests : Settle(id)

Spec == Init /\ [][Next]_vars

\* the process starts: the rules directory has been globbed, nothing is loaded
LoaderInit ==
    /\ entries \in EntryLists
    /\ phase = "loading"
    /\ loadIdx = 1
    /\ overrides = <<>>
    /\ metaMap = <<>>
    /\ loadErrors = <<>>
    /\ lastIndex = <<>>
    /\ reqSeq = 0
    /\ reqs = <<>>
    /\ served = <<>>
    /\ BuilderIdle

\* one turn of for (const rel of entries): import, collect, finalize, store
LoadModule ==
    /\ phase = "loading"
    /\ loadIdx <= Len(entries)
    /\ LET m == entries[loadIdx]
           c == Imported(m)
       IN /\ overrides' = overrides \o [i \in 1..Len(c) |-> FinalRule(c[i])]
          /\ metaMap' = metaMap \o [i \in 1..Len(c) |-> Meta(m.file, c[i])]
          /\ lastIndex' = lastIndex \o [i \in 1..Len(c) |-> 0]
          /\ loadErrors' = IF ImportThrows(m) THEN Append(loadErrors, m.file)
                           ELSE loadErrors
    /\ loadIdx' = loadIdx + 1
    /\ UNCHANGED <<phase, entries, reqSeq, reqs, served, builderVars>>

\* the rest of the top level: express(), the middleware chain, startServer()
StartServer ==
    /\ phase = "loading"
    /\ LoadingDone
    /\ phase' = "listening"
    /\ UNCHANGED <<entries, loadIdx, metaMap, loadErrors, dispatchVars, builderVars>>

LoaderNext ==
    \/ LoadModule
    \/ StartServer
    \/ \E req \in DispatchRequests : Receive(req)
    \/ \E id \in 1..MaxRequests : Settle(id)

LoaderSpec == LoaderInit /\ [][LoaderNext]_vars

\* the whole middleware chain: a registry whose rules match any GET request
\* and any request at all, and requests at and around /__env
PipelineRules ==
    {Evaluate(CallExpr(CallAnyGet)).rule,
     PlainObject("unset", Array(<<GET>>), "true", "asyncRespond")}

PipelineRequests ==
    {[method |-> GET, url |-> PathEnv],
     [method |-> HEAD, url |-> PathEnv],
     [method |-> GET, url |-> <<"/", "_", "_", "E", "N", "V">>],
     [method |-> GET, url |-> <<"/", "_", "_", "e", "n", "v", "/">>],
     [method |-> POST, url |-> PathEnv],
     [method |-> OPTIONS, url |-> PathUser],
     [method |-> GET, url |-> PathUser]}

PipelineInit ==
    /\ overrides \in SeqsUpTo(PipelineRules, MaxRules)
    /\ lastIndex = [i \in 1..Len(overrides) |-> 0]
    /\ reqSeq = 0
    /\ reqs = <<>>
    /\ served = <<>>
    /\ BuilderIdle
    /\ phase = "listening"
    /\ entries = <<RegistryModule(overrides)>>
    /\ loadIdx = 2
    /\ metaMap = [i \in 1..Len(overrides) |->
                      Meta(RegistryFile, [rule |-> overrides[i], exportName |-> NoName])]
    /\ loadErrors = <<>>

PipelineNext ==
    \/ \E req \in PipelineRequests : BuiltIn(req)
    \/ \E req \in PipelineRequests : CorsStops(req)
    \/ \E req \in PipelineRequests : Receive(req)
    \/ \E id \in 1..MaxRequests : Settle(id)

PipelineSpec == PipelineInit /\ [][PipelineNext]_vars

----------------------------------------------------------------------------
(* Properties of the dispatcher, checked under Spec *)

Received == 1..Len(reqs)
Rules == 1..Len(overrides)

\* what the predicate of rule i does on the request of r
Outcome(i, r) == RuleTest(overrides[i].test, lastIndex[i], r.req).out

HandlersInvoked(r) == {r.invoked[k] : k \in 1..Len(r.invoked)}

\* C1 as stated: for every registry and request, if no rule's predicate returns
\* true (here: a value the loop takes for true), the dispatcher calls next()
\* exactly once and no handler is invoked.
C1_AsStated ==
    \A id \in Received :
        (\A i \in Rules : ~Truthy(Outcome(i, reqs[id])))
        => /\ reqs[id].nextByDispatcher = 1
           /\ reqs[id].invoked = <<>>

\* C1 amended: if every rule's predicate returns false for the request (none
\* throws), each rule was tested, the request went to passthrough exactly once,
\* no handler was invoked and the dispatcher sent no response.
C1_NoMatchPassesThrough ==
    \A id \in Received :
        (\A i \in Rules : Outcome(i, reqs[id]) = "false")
        => /\ reqs[id].pc = "done"
           /\ Len(reqs[id].tested) = Len(overrides)
           /\ reqs[id].nextByDispatcher = 1
           /\ reqs[id].nextByHandler = 0
           /\ reqs[id].invoked = <<>>
           /\ reqs[id].sent = <<>>

C1_Witness ==
    \E id \in Received :
        /\ Len(overrides) >= 2
        /\ \A i \in Rules : Outcome(i, reqs[id]) = "false"
        /\ reqs[id].nextByDispatcher = 1

\* C2 as stated: whenever rule i and rule j (i < j) both have a true predicate
\* for a request, no handler other than rule i's is invoked for it.
C2_AsStated ==
    \A id \in Received : \A i, j \in Rules :
        (i < j /\ Outcome(i, reqs[id]) = "true" /\ Outcome(j, reqs[id]) = "true")
        => HandlersInvoked(reqs[id]) \subseteq {i}

\* C2 amended: whenever rule i and rule j (i < j) both have a true predicate,
\* rule j's handler is not invoked and at most one handler is invoked for the
\* request; if moreover every rule before i returns false, the handler invoked
\* is rule i's, once.
C2_FirstMatchWins ==
    \A id \in Received :
        /\ Len(reqs[id].invoked) <= 1
        /\ \A i, j \in Rules :
            (i < j /\ Outcome(i, reqs[id]) = "true" /\ Outcome(j, reqs[id]) = "true")
            => /\ j \notin HandlersInvoked(reqs[id])
               /\ (\A k \in 1..(i - 1) : Outcome(k, reqs[id]) = "false")
                  => reqs[id].invoked = <<i>>

C2_Witness ==
    \E id \in Received : \E i, j \in Rules :
        /\ 1 < i /\ i < j
        /\ Outcome(i, reqs[id]) = "true" /\ Outcome(j, reqs[id]) = "true"
        /\ \A k \in 1..(i - 1) : Outcome(k, reqs[id]) = "false"
        /\ reqs[id].invoked = <<i>>

\* C3: within one request the predicates are evaluated in registry order from
\* the first rule on, and no predicate is evaluated after one returned true.
C3_SequentialShortCircuit ==
    \A id \in Received :
        /\ \A k \in 1..Len(reqs[id].tested) : reqs[id].tested[k] = k
        /\ Len(reqs[id].outcomes) = Len(reqs[id].tested)
        /\ \A k \in 1..Len(reqs[id].outcomes) :
            reqs[id].outcomes[k] = "true" => k = Len(reqs[id].tested)

C3_Witness ==
    \E id \in Received :
        /\ Len(reqs[id].tested) = 2
        /\ Len(overrides) = 3
        /\ reqs[id].outcomes = <<"false", "true">>
        /\ Outcome(3, reqs[id]) = "true"

\* C4 as stated: when the matched handler throws or its promise rejects, at
\* any point of its execution, the request gets exactly one response, the 500
\* override_failed one; the handler ran once, no later rule was evaluated and
\* the dispatcher did not call next().
C4_AsStated ==
    \A id \in Received :
        (reqs[id].failed /\ reqs[id].pc = "done")
        => /\ reqs[id].sent = <<OverrideFailed(HandlerError)>>
           /\ ~reqs[id].uncaught
           /\ Len(reqs[id].invoked) = 1
           /\ Last(reqs[id].tested) = reqs[id].invoked[1]
           /\ reqs[id].nextByDispatcher = 0

C7_AsStated ==
    \A id \in Received : \A i \in HandlersInvoked(reqs[id]) :
        overrides[i].enabled # "false"

----------------------------------------------------------------------------
(* Properties of the rule builder, checked under BuilderSpec *)

ConfigForm == bCall.a.t = "object"

\* the call asked for enabled: false
AskedDisabled ==
    IF ConfigForm THEN bCall.a.cfg.enabled = "false"
    ELSE bCall.d.has /\ bCall.d.enabled = "false"

\* the methods handed to the call, as written
GivenMethods ==
    IF ConfigForm THEN bCall.a.cfg.methods.v
    ELSE IF bCall.a.t = "array" THEN bCall.a.ms
    ELSE <<bCall.a.m>>

\* the path specifier handed to the call
GivenPath == IF ConfigForm THEN bCall.a.cfg.path ELSE bCall.b

BuiltTest == bRule.rule.test
PathBuilt == BuiltTest.kind \in {"sig", "cfgPath"}
ProbePath == ReqPath(bProbe.req.url)

\* verbs compared letter by letter, ignoring case
FoldChar(c) ==
    CASE c = "G" -> "g"
      [] c = "E" -> "e"
      [] c = "T" -> "t"
      [] c = "P" -> "p"
      [] c = "O" -> "o"
      [] c = "S" -> "s"
      [] OTHER -> c

SameVerb(x, y) ==
    /\ Len(x) = Len(y)
    /\ \A k \in 1..Len(x) : FoldChar(x[k]) = FoldChar(y[k])

\* the expression, taken afresh, matches the string
PatternMatches(re, str) == RegExpTest(re, 0, str).found

\* C6: the predicate of a rule built by either form with enabled: false
\* returns false for every request.
C6_DisabledNeverMatches ==
    (bProbe.done /\ AskedDisabled) => bProbe.out = "false"

\* a disabled rule was asked about a request its method set and its path or
\* custom test accept
C6_Witness ==
    /\ bProbe.done /\ AskedDisabled
    /\ RuleTest([BuiltTest EXCEPT !.enabled = TRUE], 0, bProbe.req).out = "true"
    /\ bProbe.out = "false"

\* C8: for an enabled rule built from explicit methods and a path that
\* matches, the predicate is true exactly when the request's verb is, letter
\* case aside, one of the verbs the rule was built with.
C8_MethodCaseInsensitive ==
    (/\ bProbe.done
     /\ PathBuilt /\ BuiltTest.enabled
     /\ ~ConfigForm \/ Len(GivenMethods) > 0
     /\ GivenPath.k = "string" /\ ProbePath = GivenPath.s)
    => (bProbe.out = "true"
        <=> \E k \in 1..Len(GivenMethods) : SameVerb(GivenMethods[k], bProbe.req.method))

C8_Witness ==
    /\ bProbe.done
    /\ ~ConfigForm /\ bCall.a.t = "string" /\ bCall.a.m = get
    /\ bProbe.req.method = GET
    /\ bProbe.out = "true"

\* C9: a rule built via the record form with methods omitted or empty has the
\* method list [GET]; with path "/p" it matches GET /p and not POST /p.
C9_DefaultMethodsGet ==
    (/\ bRule.state = "returned"
     /\ ConfigForm
     /\ Len(GivenMethods) = 0)
    => /\ bRule.rule.methods = Array(<<GET>>)
       /\ BuiltTest.methods = <<GET>>
       /\ (/\ bProbe.done
           /\ BuiltTest.kind = "cfgPath" /\ BuiltTest.enabled
           /\ GivenPath = StringPath(PathPing)
           /\ ProbePath = PathPing)
          => /\ bProbe.req.method = GET => bProbe.out = "true"
             /\ bProbe.req.method = POST => bProbe.out = "false"

C9_Witness ==
    /\ bProbe.done
    /\ ConfigForm
    /\ bCall.a.cfg.methods = [has |-> TRUE, v |-> <<>>]
    /\ GivenPath = StringPath(PathPing)
    /\ bProbe.req = [method |-> GET, url |-> PathPing]
    /\ bProbe.out = "true"

\* C10 as stated: for an enabled rule built from a path specifier and a
\* request whose method is in the rule's method set, the predicate is true
\* exactly when the request path (query excluded) equals the string, or, for
\* a regular expression, exactly when the expression matches that path.
C10_AsStated ==
    (/\ bProbe.done
     /\ PathBuilt /\ BuiltTest.enabled
     /\ \E k \in 1..Len(BuiltTest.methods) : SameVerb(BuiltTest.methods[k], bProbe.req.method))
    => (bProbe.out = "true"
        <=> IF GivenPath.k = "string" THEN ProbePath = GivenPath.s
            ELSE PatternMatches(GivenPath.re, ProbePath))


\* C11: a record-form call (a config with a handler) that has neither path
\* nor test throws "rule(config) requires either path or test" and returns
\* no rule.
C11_NeitherPathNorTestThrows ==
    (/\ bRule.state # "notcalled"
     /\ ConfigForm /\ bCall.a.cfg.handler # "undefined"
     /\ bCall.a.cfg.path.k = "undefined" /\ bCall.a.cfg.test = "undefined")
    => /\ bRule.state = "thrown"
       /\ bRule.error = "Error: rule(config) requires either path or test"
       /\ bRule.rule = NoRule

C11_Witness ==
    /\ bRule.state = "thrown"
    /\ ConfigForm /\ bCall.a.cfg.handler # "undefined"
    /\ bCall.a.cfg.path.k = "undefined" /\ bCall.a.cfg.test = "undefined"
    /\ bCall.a.cfg.methods.has

\* a call that hands rule() no handler
WithoutHandler ==
    IF ConfigForm THEN bCall.a.cfg.handler = "undefined" ELSE bCall.c = "undefined"

\* C12 as stated: a call without a handler, in either form, fails at
\* construction time and returns no rule.
C12_AsStated ==
    (bRule.state # "notcalled" /\ WithoutHandler) => bRule.state = "thrown"

IsUpperCase(m) == \A k \in 1..Len(m) : ToUpperChar(m[k]) = m[k] /\ FoldChar(m[k]) # m[k]

\* C13 as stated: every rule either form returns has a methods list that is
\* not empty and holds only upper-case methods.
C13_AsStated ==
    bRule.state = "returned"
    => /\ bRule.rule.methods.array
       /\ Len(bRule.rule.methods.v) > 0
       /\ \A k \in 1..Len(bRule.rule.methods.v) : IsUpperCase(bRule.rule.methods.v[k])

----------------------------------------------------------------------------
(* Properties of the loader, checked under LoaderSpec *)

\* C15 as stated: a registry rule loaded under an export identifier has that
\* identifier as its display name, the path's string form coming after it; so
\* a rule built by rule(method, path, handler) and loaded from the named
\* export X is named X.
C15_AsStated ==
    \A i \in Rules : metaMap[i].export.has => overrides[i].name = metaMap[i].export

\* the exported items of the modules found: <<module, declaration, position>>
Items ==
    UNION {UNION {{<<m, d, k>> : k \in 1..Len(entries[m].decls[d].items)} :
                  d \in 1..Len(entries[m].decls)} :
           m \in 1..Len(entries)}

ItemDecl(x) == entries[x[1]].decls[x[2]]
ItemValue(x) == Evaluate(ItemDecl(x).items[x[3]]).rule

\* the items of the modules loaded so far that are rules: of a module that
\* loaded, accepted by isOverrideRule, and not a lone value exported as rules
Expected ==
    {x \in Items :
        /\ x[1] < loadIdx
        /\ ~ImportThrows(entries[x[1]])
        /\ isOverrideRule(ItemValue(x))
        /\ ItemDecl(x).key = KeyRules => ItemDecl(x).isArray}

\* default export, export named rules, other named exports
ExportClass(x) ==
    IF ItemDecl(x).key = KeyDefault THEN 1
    ELSE IF ItemDecl(x).key = KeyRules THEN 2 ELSE 3

DeclaredBefore(x, y) ==
    \/ x[1] < y[1]
    \/ x[1] = y[1] /\ x[2] < y[2]
    \/ x[1] = y[1] /\ x[2] = y[2] /\ x[3] < y[3]

LoadedBefore(x, y) ==
    \/ x[1] < y[1]
    \/ x[1] = y[1] /\ ExportClass(x) < ExportClass(y)
    \/ x[1] = y[1] /\ ExportClass(x) = ExportClass(y)
       /\ KeyBefore(ItemDecl(x).key, ItemDecl(y).key)
    \/ x[1] = y[1] /\ x[2] = y[2] /\ x[3] < y[3]

\* registry entry p is item x
IsAt(x, p) ==
    /\ p <= Len(overrides)
    /\ metaMap[p].file = entries[x[1]].file
    /\ metaMap[p].export = (IF ExportClass(x) = 3 THEN Name(ItemDecl(x).key) ELSE NoName)
    /\ overrides[p].test = ItemValue(x).test
    /\ overrides[p].handler = ItemValue(x).handler

\* the rule that handles a request is the first in registry order whose
\* predicate matched
FirstInOrderHandles ==
    \A id \in Received : \A k \in 1..Len(reqs[id].invoked) :
        LET i == reqs[id].invoked[k]
        IN /\ i <= Len(reqs[id].outcomes)
           /\ Truthy(reqs[id].outcomes[i])
           /\ \A j \in 1..(i - 1) : reqs[id].outcomes[j] = "false"

\* C16 as stated: the registry holds the rules of the sources in discovery
\* order and, within one source, in the order in which the source declares
\* them; the first matching rule in this order handles a request.
C16_AsStated ==
    /\ Len(overrides) = Cardinality(Expected)
    /\ \A x \in Expected :
           IsAt(x, 1 + Cardinality({y \in Expected : DeclaredBefore(y, x)}))
    /\ FirstInOrderHandles

\* C16 amended: the registry holds the rules of the sources in discovery
\* order; within one source the rules of the default export come first, then
\* those of the export named rules, then those of the other named exports in
\* the code-unit order of the export names, the elements of an exported array
\* in array order; the first matching rule in this order handles a request.
C16_RegistryOrder ==
    /\ Len(overrides) = Cardinality(Expected)
    /\ \A x \in Expected :
           IsAt(x, 1 + Cardinality({y \in Expected : LoadedBefore(y, x)}))
    /\ FirstInOrderHandles

\* export B is declared before export A, both match, the rule of A handles
C16_Witness ==
    \E id \in Received : \E i \in Rules :
        /\ i + 1 \in Rules
        /\ metaMap[i].file = ModuleNamed.file /\ metaMap[i + 1].file = ModuleNamed.file
        /\ metaMap[i].export = Name(KeyA) /\ metaMap[i + 1].export = Name(KeyB)
        /\ reqs[id].invoked = <<i>>
        /\ RuleTest(overrides[i + 1].test, lastIndex[i + 1], reqs[id].req).out = "true"

\* C17: the loader loop has ended before the first request is dispatched, and
\* from the first request on no step changes the registry.
C17_RegistryFixedBeforeDispatch ==
    [][(reqSeq > 0 \/ reqSeq' > 0)
       => /\ loadIdx > Len(entries)
          /\ overrides' = overrides
          /\ metaMap' = metaMap]_vars

C17_Witness ==
    /\ Len(entries) = MaxModules
    /\ Len(overrides) >= 2
    /\ reqSeq = MaxRequests
    /\ \E id \in Received : Len(reqs[id].tested) >= 2

\* C18 as stated: a predicate or handler failure never escapes the dispatcher
\* uncaught; it ends only the request in which it occurs.
C18_AsStated ==
    \A id \in Received :
        (\/ reqs[id].failed
         \/ \E k \in 1..Len(reqs[id].outcomes) : reqs[id].outcomes[k] \in {"throw", "promise"})
        => ~reqs[id].uncaught

ModuleIndex(f) == CHOOSE m \in 1..Len(entries) : entries[m].file = f

\* C19: a source whose import or rule construction throws is logged, skipped
\* and has no rule in the registry; the loop goes on through every source
\* before the server listens, and the rules of every source that loaded are in
\* the registry, in discovery order of their sources.
C19_FailedSourceSkipped ==
    /\ \A m \in 1..(loadIdx - 1) :
        LET here == {i \in Rules : metaMap[i].file = entries[m].file}
        IN IF ImportThrows(entries[m])
           THEN /\ here = {}
                /\ \E k \in 1..Len(loadErrors) : loadErrors[k] = entries[m].file
           ELSE Cardinality(here) = Cardinality({x \in Expected : x[1] = m})
    /\ \A i, j \in Rules :
        i < j => ModuleIndex(metaMap[i].file) <= ModuleIndex(metaMap[j].file)
    /\ phase = "listening" => loadIdx = Len(entries) + 1

\* the first source throws after building a rule, the second one loaded
C19_Witness ==
    /\ loadIdx > Len(entries)
    /\ Len(entries) = 2
    /\ entries[1] = ModuleBroken
    /\ loadErrors = <<ModuleBroken.file>>
    /\ Len(overrides) >= 2
    /\ \A i \in Rules : metaMap[i].file = entries[2].file

----------------------------------------------------------------------------
(* Requests in flight, checked under Spec *)

Suspended(id) == reqs[id].pc = "awaiting"
HandlerOf(id) == overrides[Last(reqs[id].invoked)].handler

\* C20: while the handler of one request is suspended the server keeps taking
\* requests; a request received meanwhile is scanned and matched in the same
\* step, and a step made for another request, its arrival or its completion,
\* leaves the suspended request as it is; no received request waits for its scan.
C20_SuspendedBlocksOnlyItself ==
    /\ [](\A id \in Received :
             /\ reqs[id].pc \in {"awaiting", "done"}
             /\ Suspended(id) => Listening)
    /\ [][\A id \in Received :
             Suspended(id)
             => /\ reqSeq' = reqSeq + 1
                   => /\ reqs'[id] = reqs[id]
                      /\ reqs'[reqSeq'].pc \in {"awaiting", "done"}
                      /\ Len(overrides) > 0 => Len(reqs'[reqSeq'].tested) > 0
                /\ \A other \in Received \ {id} :
                       reqs'[other] # reqs[other] => reqs'[id] = reqs[id]]_vars

\* the handler of request 1 never completes; request 2 was matched and answered
C20_Witness ==
    /\ Len(reqs) = 2
    /\ Suspended(1) /\ HandlerOf(1) = "hang"
    /\ reqs[2].pc = "done"
    /\ Len(reqs[2].invoked) = 1
    /\ reqs[2].sent = <<HandlerResponse>>

----------------------------------------------------------------------------
(* Order of the guards inside a built predicate, checked under BuilderSpec *)

IsPrefix(p, q) == Len(p) <= Len(q) /\ \A k \in 1..Len(p) : p[k] = q[k]

MethodInSet ==
    \E k \in 1..Len(BuiltTest.methods) : SameVerb(BuiltTest.methods[k], bProbe.req.method)

\* C21: one evaluation of a built predicate checks the enabled flag, then the
\* method, then the path or the custom test, and stops at the first check that
\* fails; the custom test is not called, and the regular expression is not
\* run, for a disabled rule or for a method outside the rule's method set.
C21_GuardOrder ==
    bProbe.done
    => /\ \/ IsPrefix(bProbe.steps, <<"enabled", "method", "path">>)
          \/ IsPrefix(bProbe.steps, <<"enabled", "method", "test">>)
       /\ Len(bProbe.steps) = 3 <=> (BuiltTest.enabled /\ MethodInSet)
       /\ Len(bProbe.steps) = 1 <=> ~BuiltTest.enabled
       /\ Len(bProbe.steps) < 3
          => /\ bProbe.out = "false"
             /\ bLastIndex = bProbe.li

\* a custom test that throws is not reached: the method is not in the set
C21_Witness ==
    /\ bProbe.done
    /\ ConfigForm /\ bCall.a.cfg.test = "throw"
    /\ BuiltTest.enabled /\ ~MethodInSet
    /\ bProbe.steps = <<"enabled", "method">>
    /\ bProbe.out = "false"

----------------------------------------------------------------------------
(* A handler that defers, and how a dispatch ends; checked under Spec *)

\* the handler of the rule that matched request id calls next() and returns
Deferred(id) ==
    /\ reqs[id].invoked # <<>>
    /\ overrides[Last(reqs[id].invoked)].handler = "next"

\* C22: when the matched handler calls next() instead of responding, the
\* request goes to passthrough once: the scan ended at the matched rule, no
\* later rule was tested or invoked, the dispatcher did not call next() itself
\* and sent nothing.
C22_DeferringHandlerPassesThroughOnce ==
    \A id \in Received :
        Deferred(id)
        => /\ reqs[id].pc = "done"
           /\ reqs[id].nextByHandler = 1
           /\ reqs[id].nextByDispatcher = 0
           /\ Len(reqs[id].invoked) = 1
           /\ Len(reqs[id].tested) = Last(reqs[id].invoked)
           /\ Last(reqs[id].tested) = Last(reqs[id].invoked)
           /\ reqs[id].sent = <<>>
           /\ ~reqs[id].failed

\* a later rule would have matched the deferred request
C22_Witness ==
    \E id \in Received :
        /\ Deferred(id)
        /\ Last(reqs[id].invoked) < Len(overrides)
        /\ Outcome(Last(reqs[id].invoked) + 1, reqs[id]) = "true"
        /\ reqs[id].nextByHandler = 1

\* the three ways a dispatch ends: the awaited handler finished, the 500
\* override_failed response went out, the dispatcher called next()
HandlerFinished(id) == reqs[id].invoked # <<>> /\ ~reqs[id].failed /\ reqs[id].pc = "done"
ErrorSent(id) ==
    \E k \in 1..Len(reqs[id].sent) : reqs[id].sent[k].status = StatusOverrideFailed
Yielded(id) == reqs[id].nextByDispatcher > 0

Ends(id) ==
    (IF HandlerFinished(id) THEN 1 ELSE 0) + (IF ErrorSent(id) THEN 1 ELSE 0)
    + (IF Yielded(id) THEN 1 ELSE 0)

\* C23 as stated: a dispatch whose predicates and handler have completed has
\* ended in exactly one of: handler finished, 500 response sent, yielded to
\* passthrough; a request whose handler has not completed is in none of them.
C23_AsStated ==
    \A id \in Received :
        /\ reqs[id].pc = "done" => Ends(id) = 1
        /\ reqs[id].pc = "awaiting" => Ends(id) = 0

----------------------------------------------------------------------------
(* Purity of a built predicate, checked under BuilderSpec *)

\* C24 as stated: an evaluation of a built predicate changes no state, and
\* its result is the one the first evaluation on that request would give,
\* whatever evaluations came before, for string and for regular-expression
\* specifiers alike.
C24_AsStated ==
    bProbe.done
    => /\ bLastIndex = bProbe.li
       /\ bProbe.out = RuleTest(BuiltTest, 0, bProbe.req).out

----------------------------------------------------------------------------
(* The built-in endpoint and the dispatcher, checked under PipelineSpec *)

Served == 1..Len(served)

\* C25 as stated: the requests the built-in endpoint answers are the GET
\* requests to /__env; none of them is dispatched, and every other request
\* that passes CORS is.
C25_AsStated ==
    /\ \A k \in Served :
        served[k].by = "env"
        <=> (served[k].req.method = GET /\ ReqPath(served[k].req.url) = PathEnv)
    /\ \A id \in Received :
        ~(reqs[id].req.method = GET /\ ReqPath(reqs[id].req.url) = PathEnv)

\* GET or HEAD, and a path that is /__env or /__env/ in any letter case
ToEnv(req) ==
    /\ req.method = GET \/ req.method = HEAD
    /\ \E suffix \in {<<>>, <<"/">>} :
           /\ Len(ReqPath(req.url)) = Len(PathEnv) + Len(suffix)
           /\ \A k \in 1..Len(ReqPath(req.url)) :
                  ToLowerChar(ReqPath(req.url)[k]) = (PathEnv \o suffix)[k]

\* C25 amended: the built-in endpoint is mounted ahead of CORS, the logging
\* middleware and the dispatcher; it answers the GET and HEAD requests whose
\* path is /__env, letter case ignored and one trailing slash allowed, and no
\* rule's predicate or handler runs for them even when a rule would match;
\* every other request that passes CORS is scanned by the dispatcher before
\* it goes to passthrough.
C25_BuiltInAheadOfDispatcher ==
    /\ [](/\ \A k \in Served : served[k].by = "env" <=> ToEnv(served[k].req)
          /\ \A id \in Received :
                /\ ~ToEnv(reqs[id].req)
                /\ reqs[id].nextByDispatcher > 0
                   => Len(reqs[id].tested) = Len(overrides))
    /\ [][served' # served
          => /\ reqs' = reqs
             /\ reqSeq' = reqSeq
             /\ lastIndex' = lastIndex]_vars

\* the first rule would match GET /__env; the built-in endpoint answered it,
\* and a POST to /__env went through the dispatcher
C25_Witness ==
    /\ Len(overrides) > 0
    /\ \E k \in Served :
        /\ served[k].by = "env"
        /\ served[k].req = [method |-> GET, url |-> PathEnv]
        /\ RuleTest(overrides[1].test, lastIndex[1], served[k].req).out = "true"
    /\ \E id \in Received :
        /\ reqs[id].req = [method |-> POST, url |-> PathEnv]
        /\ Len(reqs[id].tested) > 0

====
